---- MODULE Spec2Model ----
(***************************************************************************)
(* Model of the concurrent polling engine of health-checker (main.go):     *)
(* HealthChecker.Run spawns the reporter loop (logMetrics) and one         *)
(* goroutine per configured URL (createUrlEntry, then monitorUrl, which    *)
(* calls checkUrl on every tick).  The tickers and the cancellation of the *)
(* context are the environment.                                            *)
(***************************************************************************)
EXTENDS Integers, Sequences, FiniteSets, TLC

\* ---------------------------------------------------------------- bounds
\* Number of ticks the check-loop tickers deliver in one run.
MaxTicks == 2
\* The ceiling on the number of endpoints the documents ask for ("max 100
\* URLs"), scaled to the lists explored.
MaxEndpoints == 1

\* ------------------------------------------------------- input alphabets
\* Addresses a config.json may list.  validateUrl accepts every string, so
\* an address http.NewRequestWithContext cannot parse reaches checkUrl.
Addrs == {"http://a", "http://b", "http://bad\n"}

Malformed(u) == u = "http://bad\n"

\* Status codes a response may carry (both edges of the 2xx range).
StatusCodes == {199, 200, 299, 300}

\* Elapsed times of a check, in nanoseconds (time.Duration).
Elapsed == {700000, 1500000}

Nil == 0

VARIABLES
    Urls,          \* h.config.Urls
    config,        \* IntervalSeconds and TimeoutSeconds of the Config
    cancelled,     \* ctx.Done() is closed
    crashed,       \* the process died (panic or fatal runtime error)
    runPc,         \* position of HealthChecker.Run
    runIdx,        \* index of Run's range loop over config.Urls
    wg,            \* counter of the sync.WaitGroup of Run
    metrics,       \* h.metrics: address -> record id, Nil when absent
    rec,           \* record id -> the three counters of a URLMetrics
    mu,            \* record id -> state of its RWMutex
    pc,            \* position of each per-URL goroutine
    m,             \* local m of checkUrl, per goroutine
    nTicks,        \* ticks the check loops have received from their tickers
    logs,          \* number of per-check log lines each goroutine has emitted
    before,        \* counters of the locked record when checkUrl was entered
    acct,          \* record id -> outcomes of the checks completed on it
    rpc,           \* position of the reporter loop
    rk,            \* index of logMetrics' range loop over config.Urls
    rm,            \* local m of logMetrics
    repOut,        \* metrics lines emitted in the current reporter tick
    idleAtCancel,  \* goroutines that were idle at their select when cancel fired
    quietAtCancel  \* cancel fired before any tick of a check loop

vars == <<Urls, config, cancelled, crashed, runPc, runIdx, wg, metrics, rec, mu, pc, m,
          nTicks, logs, before, acct, rpc, rk, rm,
          repOut, idleAtCancel, quietAtCancel>>

envVars == <<cancelled, idleAtCancel, quietAtCancel>>
runVars == <<runPc, runIdx>>
repVars == <<rpc, rk, rm, repOut>>

Loops == 1..Len(Urls)

ZeroCounters == [TotalChecks |-> 0, SuccessfulChecks |-> 0, TotalResponseTime |-> 0]
ZeroAcct == [healthy |-> 0, unhealthy |-> 0, failed |-> 0, sum |-> 0]
FreeMutex == [w |-> 0, r |-> 0]
NotChecking == [c |-> ZeroCounters, live |-> FALSE]

\* Config.Urls after ValidateUrls: a non-empty list, repeats allowed.  One
\* endpoint, one that cannot be parsed, two distinct ones, the same one twice,
\* and a good one after and before a bad one.
Configs ==
    {<<"http://a">>, <<"http://bad\n">>, <<"http://a", "http://b">>,
     <<"http://a", "http://a">>, <<"http://a", "http://bad\n">>,
     <<"http://bad\n", "http://a">>}

\* Goroutine ids of the longest list of Configs.
LoopIds == {1, 2}

\* ------------------------------------------------------------- configuration
\* What config.json may hold: check_interval_seconds, timeout_seconds, Urls
\* (an absent or empty list included).
Settings ==
    [IntervalSeconds : {-1, 0, 30}, TimeoutSeconds : {0, 5}]

RawUrlLists == Configs \cup {<<>>}

\* The three assertions of validateConfig and ValidateUrls.
NonNegativeInterval(c) == c.IntervalSeconds >= 0

PositiveInterval(c) == c.IntervalSeconds > 0

PositiveTimeout(c) == c.TimeoutSeconds > 0

\* validateUrl returns true for every string.
validateUrl(u) == TRUE

\* ValidateUrls keeps, in order, the URLs validateUrl accepts.
ValidateUrls(urls) == SelectSeq(urls, validateUrl)

\* validateConfig reaches its return: no assert.Assert called os.Exit(1).
validateConfig(c, urls) ==
    /\ PositiveInterval(c)
    /\ PositiveTimeout(c)
    /\ Len(urls) > 0
    /\ Len(ValidateUrls(urls)) > 0

\* Everything but the configuration and the position of main and Run.
InitRest ==
    /\ cancelled = FALSE
    /\ crashed = FALSE
    /\ runIdx = 1
    /\ wg = 0
    /\ metrics = [u \in Addrs |-> Nil]
    /\ rec = [i \in Loops |-> ZeroCounters]
    /\ mu = [i \in Loops |-> FreeMutex]
    /\ pc = [i \in Loops |-> "unspawned"]
    /\ m = [i \in Loops |-> Nil]
    /\ nTicks = 0
    /\ logs = [i \in Loops |-> 0]
    /\ before = [i \in Loops |-> NotChecking]
    /\ acct = [i \in Loops |-> ZeroAcct]
    /\ rpc = "unspawned"
    /\ rk = 1
    /\ rm = Nil
    /\ repOut = <<>>
    /\ idleAtCancel = {}
    /\ quietAtCancel = FALSE

\* The state after NewHealthChecker, when main calls h.Run(ctx).
Init ==
    /\ Urls \in Configs
    /\ config \in {c \in Settings : validateConfig(c, Urls)}
    /\ runPc = "spawnReporter"
    /\ InitRest

\* The state when main starts, config.json not yet read.
InitMain ==
    /\ Urls \in RawUrlLists
    /\ config \in Settings
    /\ runPc = "main"
    /\ InitRest

\* ----------------------------------------------------------------------- main
\* GetConfig with validateConfig, ValidateUrls again, NewHealthChecker: a
\* failed assertion exits with status 1, else main calls h.Run(ctx).
Main ==
    /\ runPc = "main"
    /\ IF validateConfig(config, Urls)
       THEN /\ Urls' = ValidateUrls(ValidateUrls(Urls))
            /\ runPc' = "spawnReporter"
       ELSE /\ Urls' = Urls
            /\ runPc' = "exit1"
    /\ UNCHANGED <<config, envVars, crashed, runIdx, wg, metrics, rec, mu, pc, m,
                   nTicks, logs, before, acct, repVars>>

\* ------------------------------------------------------------ environment
\* The signal goroutine of main calls cancel(): ctx.Done() is closed for good.
Cancel ==
    /\ ~crashed
    /\ ~cancelled
    /\ cancelled' = TRUE
    /\ idleAtCancel' = {i \in Loops : pc[i] = "select"}
    /\ quietAtCancel' = (nTicks = 0)
    /\ UNCHANGED <<Urls, config, crashed, runVars, wg, metrics, rec, mu, pc, m, nTicks, logs, before, acct, repVars>>

\* -------------------------------------------------------- HealthChecker.Run
\* wg.Go(func() { h.logMetrics(ctx) }): the counter is raised, the reporter
\* starts and creates its ticker.
RunSpawnReporter ==
    /\ ~crashed
    /\ runPc = "spawnReporter"
    /\ wg' = wg + 1
    /\ rpc' = "select"
    /\ runPc' = "spawnUrls"
    /\ UNCHANGED <<Urls, config, envVars, crashed, runIdx, metrics, rec, mu, pc, m, nTicks, logs, before, acct, rk, rm, repOut>>

\* The counter after wg.Add(1) in the round of the range loop with the
\* (0-based) index idx.
WgAddIndex(n, idx) == n + idx

WgAdd(n, idx) == n + 1

\* One round of the range loop: wg.Add(1) and go func(url).

RunSpawnUrl ==
    /\ ~crashed
    /\ runPc = "spawnUrls"
    /\ runIdx <= Len(Urls)
    /\ wg' = WgAdd(wg, runIdx - 1)
    /\ pc' = [pc EXCEPT ![runIdx] = "create"]
    /\ runIdx' = runIdx + 1
    /\ UNCHANGED <<Urls, config, envVars, crashed, runPc, metrics, rec, mu, m, nTicks, logs, before, acct, repVars>>

\* wg.Wait() returns when the counter is zero; Run logs and returns.
RunWait ==
    /\ ~crashed
    /\ runPc = "spawnUrls"
    /\ runIdx > Len(Urls)
    /\ wg = 0
    /\ runPc' = "returned"
    /\ UNCHANGED <<Urls, config, envVars, crashed, runIdx, wg, metrics, rec, mu, pc, m,
                   nTicks, logs, before, acct, repVars>>

\* ------------------------------------------------------------ createUrlEntry
\* Goroutines that are inside the unsynchronised write h.metrics[url] = ...
MapWriters == {j \in Loops : pc[j] = "creating"}

\* The map write begins.
CreateUrlEntryBegin(i) ==
    /\ ~crashed
    /\ pc[i] = "create"
    /\ pc' = [pc EXCEPT ![i] = "creating"]
    /\ UNCHANGED <<Urls, config, envVars, crashed, runVars, wg, metrics, rec, mu, m, nTicks, logs, before, acct, repVars>>

\* The map write ends: the key is bound to a fresh zeroed record with a new
\* RWMutex; monitorUrl starts and creates its ticker.
CreateUrlEntryEnd(i) ==
    /\ ~crashed
    /\ pc[i] = "creating"
    /\ metrics' = [metrics EXCEPT ![Urls[i]] = i]
    /\ rec' = [rec EXCEPT ![i] = ZeroCounters]
    /\ mu' = [mu EXCEPT ![i] = FreeMutex]
    /\ pc' = [pc EXCEPT ![i] = "select"]
    /\ UNCHANGED <<Urls, config, envVars, crashed, runVars, wg, m, nTicks, logs,
                   before, acct, repVars>>

\* The Go runtime may detect an access to the map that overlaps a write of
\* another goroutine and end the process ("fatal error: concurrent map writes",
\* "concurrent map read and map write"); detection is best effort, so the
\* access may also go through (the Begin, SelectTick and ReportLookup actions).
MapAccessFatal(i) ==
    /\ ~crashed
    /\ \/ pc[i] = "create"
       \/ pc[i] = "select" /\ nTicks < MaxTicks
    /\ MapWriters \ {i} # {}
    /\ crashed' = TRUE
    /\ UNCHANGED <<Urls, config, envVars, runVars, wg, metrics, rec, mu, pc, m, nTicks, logs, before, acct, repVars>>

\* ------------------------------------------------------- URLMetrics updates
HealthyInclusive(code) == code >= 200 /\ code <= 300

\* resp.StatusCode >= 200 && resp.StatusCode < 300
Healthy(code) == code >= 200 /\ code < 300

\* time.Duration.Milliseconds(): whole milliseconds of a nanosecond count.
Milliseconds(d) == d \div 1000000

RecordDispatchNone(c) == c

\* m.TotalChecks += 1, made before the request is sent.
RecordDispatch(c) == [c EXCEPT !.TotalChecks = @ + 1]

\* The two branches on resp.StatusCode: both add the elapsed time, the healthy
\* one also counts a success.
RecordResponse(c, code, d) ==
    IF Healthy(code)
    THEN [c EXCEPT !.SuccessfulChecks = @ + 1, !.TotalResponseTime = @ + d]
    ELSE [c EXCEPT !.TotalResponseTime = @ + d]

\* sync.RWMutex: Lock waits for the writer and the readers to leave, RLock
\* waits for the writer to leave.  (Go also makes RLock wait behind a blocked
\* Lock; that only removes interleavings from the ones allowed here.)
CanLockGlobal(r) == \A q \in Loops : mu[q].w = 0 /\ mu[q].r = 0
CanLock(r) == mu[r].w = 0 /\ mu[r].r = 0
CanRLockAlways(r) == TRUE
CanRLock(r) == mu[r].w = 0

UnlockMissing(mus, r) == mus

\* m.Mutex.Unlock() on record r.
Unlock(mus, r) == [mus EXCEPT ![r].w = 0]

\* slog.Info / slog.Error of checkUrl: one more per-check line.
LogLine(n) == n + 1

\* --------------------------------------------------- monitorUrl and checkUrl
\* The ticker of monitorUrl has fired and select takes case <-ticker.C (with
\* ctx.Done() ready too, select picks either case); checkUrl starts:
\* start := time.Now() and the unsynchronised map read m := h.metrics[url].
SelectTick(i) ==
    /\ ~crashed
    /\ pc[i] = "select"
    /\ nTicks < MaxTicks
    /\ nTicks' = nTicks + 1
    /\ m' = [m EXCEPT ![i] = metrics[Urls[i]]]
    /\ pc' = [pc EXCEPT ![i] = "Lock"]
    /\ UNCHANGED <<Urls, config, envVars, crashed, runVars, wg, metrics, rec, mu, logs,
                   before, acct, repVars>>

\* select takes case <-ctx.Done(): monitorUrl returns and the deferred
\* wg.Done() runs.
SelectDone(i) ==
    /\ ~crashed
    /\ pc[i] = "select"
    /\ cancelled
    /\ pc' = [pc EXCEPT ![i] = "done"]
    /\ wg' = wg - 1
    /\ UNCHANGED <<Urls, config, envVars, crashed, runVars, metrics, rec, mu, m, nTicks, logs, before, acct, repVars>>

\* m.Mutex.Lock(), then http.NewRequestWithContext.  A nil m panics.  If the
\* request cannot be built checkUrl logs and returns, and the lock stays
\* held; otherwise m.TotalChecks += 1 and the request is sent.
CheckLock(i) ==
    /\ ~crashed
    /\ pc[i] = "Lock"
    /\ IF m[i] = Nil
       THEN /\ crashed' = TRUE
            /\ UNCHANGED <<mu, before, logs, pc, rec, m>>
       ELSE /\ CanLock(m[i])
            /\ mu' = [mu EXCEPT ![m[i]].w = i]
            /\ crashed' = crashed
            /\ IF Malformed(Urls[i])
               THEN /\ logs' = [logs EXCEPT ![i] = LogLine(@)]
                    /\ pc' = [pc EXCEPT ![i] = "select"]
                    /\ m' = [m EXCEPT ![i] = Nil]
                    /\ UNCHANGED <<rec, before>>
               ELSE /\ before' = [before EXCEPT ![i] =
                                    [c |-> rec[m[i]], live |-> ~cancelled]]
                    /\ rec' = [rec EXCEPT ![m[i]] = RecordDispatch(@)]
                    /\ pc' = [pc EXCEPT ![i] = "Do"]
                    /\ UNCHANGED <<logs, m>>
    /\ UNCHANGED <<Urls, config, envVars, runVars, wg, metrics, nTicks, acct,
                   repVars>>

\* h.httpClient.Do returns an error (a network failure, the client timeout,
\* or the context was cancelled): log status NONE, Unlock, return.
CheckDoError(i) ==
    /\ ~crashed
    /\ pc[i] = "Do"
    /\ logs' = [logs EXCEPT ![i] = LogLine(@)]
    /\ mu' = Unlock(mu, m[i])
    /\ acct' = [acct EXCEPT ![m[i]].failed = @ + 1]
    /\ before' = [before EXCEPT ![i] = NotChecking]
    /\ pc' = [pc EXCEPT ![i] = "select"]
    /\ m' = [m EXCEPT ![i] = Nil]
    /\ UNCHANGED <<Urls, config, envVars, crashed, runVars, wg, metrics, rec, nTicks, repVars>>

\* h.httpClient.Do returns a response: update the counters by status, log,
\* Unlock.  A request made with an already cancelled context gets no response;
\* one sent before the cancellation may still win the race against it.
CheckDoResponse(i, code, d) ==
    /\ ~crashed
    /\ pc[i] = "Do"
    /\ ~cancelled \/ before[i].live
    /\ rec' = [rec EXCEPT ![m[i]] = RecordResponse(@, code, d)]
    /\ logs' = [logs EXCEPT ![i] = LogLine(@)]
    /\ mu' = Unlock(mu, m[i])
    /\ acct' = [acct EXCEPT ![m[i]] =
                  IF code >= 200 /\ code <= 299
                  THEN [@ EXCEPT !.healthy = @ + 1, !.sum = @ + d]
                  ELSE [@ EXCEPT !.unhealthy = @ + 1, !.sum = @ + d]]
    /\ before' = [before EXCEPT ![i] = NotChecking]
    /\ pc' = [pc EXCEPT ![i] = "select"]
    /\ m' = [m EXCEPT ![i] = Nil]
    /\ UNCHANGED <<Urls, config, envVars, crashed, runVars, wg, metrics, nTicks,
                   repVars>>

\* ---------------------------------------------------------------- logMetrics
\* The average of the metrics line:
\* int(m.TotalResponseTime.Milliseconds()) / m.TotalChecks
AvgResponseTime(c) == Milliseconds(c.TotalResponseTime) \div c.TotalChecks

SkipSuccessless(c) == c.SuccessfulChecks = 0

\* if m.TotalChecks == 0 { m.Mutex.RUnlock(); continue }
Skip(c) == c.TotalChecks = 0

MetricsLine(u, c) ==
    [URL |-> u, TotalChecks |-> c.TotalChecks, SuccessfulChecks |-> c.SuccessfulChecks,
     AvgResponseTime |-> AvgResponseTime(c)]

\* The ticker of logMetrics has fired and select takes case <-ticker.C: the
\* range loop over config.Urls starts.
ReportSelectTick ==
    /\ ~crashed
    /\ rpc = "select"
    /\ rk' = 1
    /\ repOut' = <<>>
    /\ rpc' = "lookup"
    /\ UNCHANGED <<Urls, config, envVars, crashed, runVars, wg, metrics, rec, mu, pc, m,
                   nTicks, logs, before, acct, rm>>

\* select takes case <-ctx.Done(): logMetrics returns, wg.Go's Done runs.
ReportSelectDone ==
    /\ ~crashed
    /\ rpc = "select"
    /\ cancelled
    /\ rpc' = "done"
    /\ wg' = wg - 1
    /\ UNCHANGED <<Urls, config, envVars, crashed, runVars, metrics, rec, mu, pc, m, nTicks, logs, before, acct, rk, rm, repOut>>

\* m := h.metrics[u], an unsynchronised map read.
ReportLookup ==
    /\ ~crashed
    /\ rpc = "lookup"
    /\ rm' = metrics[Urls[rk]]
    /\ rpc' = "RLock"
    /\ UNCHANGED <<Urls, config, envVars, crashed, runVars, wg, metrics, rec, mu, pc, m,
                   nTicks, logs, before, acct, rk, repOut>>

\* The map read overlaps a write and the runtime ends the process.
ReportLookupFatal ==
    /\ ~crashed
    /\ rpc = "lookup"
    /\ MapWriters # {}
    /\ crashed' = TRUE
    /\ UNCHANGED <<Urls, config, envVars, runVars, wg, metrics, rec, mu, pc, m, nTicks, logs, before, acct, repVars>>

\* m.Mutex.RLock(); a nil m panics.
ReportRLock ==
    /\ ~crashed
    /\ rpc = "RLock"
    /\ IF rm = Nil
       THEN /\ crashed' = TRUE
            /\ UNCHANGED <<mu, rpc>>
       ELSE /\ CanRLock(rm)
            /\ mu' = [mu EXCEPT ![rm].r = @ + 1]
            /\ rpc' = "read"
            /\ crashed' = crashed
    /\ UNCHANGED <<Urls, config, envVars, runVars, wg, metrics, rec, pc, m, nTicks,
                   logs, before, acct, rk, rm, repOut>>

\* Under the read lock: skip a record with TotalChecks == 0, else emit the
\* metrics line; RUnlock on both paths; next URL, or back to the select.
ReportRead ==
    /\ ~crashed
    /\ rpc = "read"
    /\ repOut' = IF Skip(rec[rm])
                 THEN repOut
                 ELSE Append(repOut, MetricsLine(Urls[rk], rec[rm]))
    /\ mu' = [mu EXCEPT ![rm].r = @ - 1]
    /\ IF rk < Len(Urls)
       THEN rk' = rk + 1 /\ rpc' = "lookup"
       ELSE rk' = 1 /\ rpc' = "select"
    /\ rm' = Nil
    /\ UNCHANGED <<Urls, config, envVars, crashed, runVars, wg, metrics, rec, pc, m, nTicks, logs, before, acct>>

\* ------------------------------------------------------------- specification
Next ==
    \/ Cancel
    \/ RunSpawnReporter
    \/ RunSpawnUrl
    \/ RunWait
    \/ ReportSelectTick
    \/ ReportSelectDone
    \/ ReportLookup
    \/ ReportLookupFatal
    \/ ReportRLock
    \/ ReportRead
    \/ \E i \in Loops : CreateUrlEntryBegin(i)
    \/ \E i \in Loops : CreateUrlEntryEnd(i)
    \/ \E i \in Loops : MapAccessFatal(i)
    \/ \E i \in Loops : SelectTick(i)
    \/ \E i \in Loops : SelectDone(i)
    \/ \E i \in Loops : CheckLock(i)
    \/ \E i \in Loops : CheckDoError(i)
    \/ \E i \in Loops, code \in StatusCodes, d \in Elapsed : CheckDoResponse(i, code, d)

Spec == Init /\ [][Next]_vars

\* The whole of main: startup, then Run.
NextMain == Main \/ Next

MainSpec == InitMain /\ [][NextMain]_vars

\* Scheduling: the Go scheduler runs every runnable goroutine, an HTTP call
\* returns (response, failure, client timeout or cancelled context), and a
\* select whose ctx.Done() case is ready again and again takes it in the end
\* (the choice among ready cases is uniformly random).  The tickers and the
\* shutdown signal are under no obligation.
LoopFair(i) ==
    /\ WF_vars(i \in Loops /\ CreateUrlEntryBegin(i))
    /\ WF_vars(i \in Loops /\ CreateUrlEntryEnd(i))
    /\ SF_vars(i \in Loops /\ SelectDone(i))
    /\ WF_vars(i \in Loops /\ CheckLock(i))
    /\ WF_vars(i \in Loops /\ (CheckDoError(i)
          \/ (\E code \in StatusCodes, d \in Elapsed : CheckDoResponse(i, code, d))))

FairSpec ==
    /\ Spec
    /\ WF_vars(RunSpawnReporter)
    /\ WF_vars(RunSpawnUrl)
    /\ WF_vars(RunWait)
    /\ SF_vars(ReportSelectDone)
    /\ WF_vars(ReportLookup)
    /\ WF_vars(ReportRLock)
    /\ WF_vars(ReportRead)
    /\ \A i \in LoopIds : LoopFair(i)

\* ------------------------------------------------------------------ helpers
\* A request on record r is in flight.
InFlight(r) == \E i \in Loops : pc[i] = "Do" /\ m[i] = r

\* The checks completed on record r that obtained a response.
Responded(r) == acct[r].healthy + acct[r].unhealthy

\* The counters of record r are those of the checks completed on it.
Accounted(r) ==
    /\ rec[r].TotalChecks = acct[r].healthy + acct[r].unhealthy + acct[r].failed
    /\ rec[r].SuccessfulChecks = acct[r].healthy
    /\ rec[r].TotalResponseTime = acct[r].sum

\* ------------------------------------------------------------------- claims
\* C1: once the context is cancelled, every check loop and the reporter loop
\* return and Run returns (a process that died of a panic is not counted
\* against the claim), under the scheduling of FairSpec.
C1_DrainLiveness == cancelled ~> (runPc = "returned" \/ crashed)

\* C2: a check loop that is not inside checkUrl holds no record's write lock,
\* and the reporter holds no read lock unless it is reading a record.
C2_GuardReleased ==
    /\ \A i \in Loops : pc[i] \in {"select", "done"} => \A r \in Loops : mu[r].w # i
    /\ rpc # "read" => \A r \in Loops : mu[r].r = 0

\* C3: a check loop whose HTTP request is in flight holds no record's write lock.
C3_NoGuardAcrossNetwork ==
    \A i \in Loops : pc[i] = "Do" => \A r \in Loops : mu[r].w # i

\* C4: every lookup of a configured URL in the metrics map, by the reporter or
\* by a check loop, yields a record.
C4_RecordExists ==
    /\ rpc = "RLock" => rm # Nil
    /\ \A i \in Loops : pc[i] = "Lock" => m[i] # Nil

\* C5: a request that was sent before the cancellation and fails once the
\* context is cancelled leaves the three counters as they were when checkUrl was entered and emits
\* no per-check log line.
C5_CancelledRequestSuppressed ==
    [][\A i \in Loops :
         (/\ pc[i] = "Do" /\ before[i].live /\ cancelled
          /\ pc'[i] = "select" /\ acct'[m[i]].failed = acct[m[i]].failed + 1)
            => (rec'[m[i]] = before[i].c /\ logs'[i] = logs[i])]_vars

\* C6: a check loop that was idle at its select when the cancellation fired
\* sends no further request, and when the cancellation fired before any tick,
\* every endpoint's counters are still zero when Run has returned.
C6_IdleCancelNoProbe ==
    /\ \A i \in idleAtCancel : pc[i] # "Do"
    /\ (runPc = "returned" /\ quietAtCancel) =>
          \A i \in Loops : metrics[Urls[i]] # Nil => rec[metrics[Urls[i]]] = ZeroCounters

\* C7: when Run has returned, the reporter loop and every per-URL goroutine
\* have returned: no request is in flight and no lock is held by a running loop.
C7_RunReturnsAfterLoops ==
    runPc = "returned" => (rpc = "done" /\ \A i \in Loops : pc[i] = "done")

C7_Witness ==
    /\ runPc = "returned"
    /\ Len(Urls) = 2
    /\ \E r \in Loops : rec[r].TotalChecks > 0

\* C8: whenever no request is in flight on a record, its TotalChecks is the
\* number of checks completed on it, its SuccessfulChecks the number of healthy
\* responses, and its TotalResponseTime the sum of the elapsed times of the
\* healthy and unhealthy responses.
C8_CounterAccounting == \A r \in Loops : ~InFlight(r) => Accounted(r)

C8_Witness ==
    \E r \in Loops : ~InFlight(r) /\ rec[r].TotalChecks = 2 /\ Responded(r) = 1

\* C9: the average of an emitted metrics line is the record's
\* TotalResponseTime in whole milliseconds divided by the number of checks
\* that obtained a response, when there is one.
C9_AverageOverResponded ==
    [][(rpc = "read" /\ Len(repOut') > Len(repOut) /\ Responded(rm) > 0)
          => repOut'[Len(repOut')].AvgResponseTime
                = Milliseconds(rec[rm].TotalResponseTime) \div Responded(rm)]_vars

\* C10: while the reporter reads a record under the read lock, no check on
\* that record is between its TotalChecks increment and its update of
\* SuccessfulChecks and TotalResponseTime: the counters are those of a whole
\* number of completed checks.
C10_SnapshotAtomic == rpc = "read" => (~InFlight(rm) /\ Accounted(rm))

C10_Witness ==
    /\ rpc = "read"
    /\ rec[rm].TotalChecks > 0
    /\ \E i \in Loops : pc[i] = "Lock" /\ m[i] = rm

\* C11: SuccessfulChecks <= TotalChecks in every record in every state, a
\* state in which a check on the record is partly done included.
C11_SuccessAtMostTotal ==
    \A r \in Loops : rec[r].SuccessfulChecks <= rec[r].TotalChecks

C11_Witness ==
    \E r \in Loops : InFlight(r) /\ rec[r].SuccessfulChecks = 1 /\ rec[r].TotalChecks = 2

\* C12: once the reporter loop or a check loop has started, no step changes
\* the metrics map: no key is added, removed or bound to another record.
C12_KeySetFixed ==
    [][(rpc # "unspawned" \/ \E i \in Loops : pc[i] \notin {"unspawned", "create", "creating"})
          => metrics' = metrics]_vars

\* C13: a check loop only ever waits for the guard of a record of its own
\* address, and when it has to wait, the guard is held by the reporter reading
\* that record or by a check of the same address; the state of another
\* endpoint's guard or request never keeps it from locking.
C13_EndpointIndependence ==
    \A i \in Loops :
        (pc[i] = "Lock" /\ m[i] # Nil) =>
            /\ Urls[m[i]] = Urls[i]
            /\ ~CanLock(m[i]) =>
                  \/ mu[m[i]].r > 0
                  \/ mu[m[i]].w # 0 /\ Urls[mu[m[i]].w] = Urls[i]

C13_Witness ==
    \E i, j \in Loops :
        /\ Urls[i] # Urls[j]
        /\ pc[j] = "Do" /\ mu[m[j]].w = j
        /\ pc[i] = "Lock" /\ m[i] # Nil /\ CanLock(m[i])

\* Every goroutine of Run is still to be spawned and no record exists.
NothingSpawned ==
    /\ runPc \in {"main", "exit1"}
    /\ rpc = "unspawned"
    /\ \A i \in Loops : pc[i] = "unspawned"
    /\ \A u \in Addrs : metrics[u] = Nil

\* C14: with a configured list longer than the ceiling on the number of
\* endpoints, startup fails: Run is not entered and no loop is spawned.
C14_EndpointCeiling == Len(Urls) > MaxEndpoints => NothingSpawned

\* C15: with an empty endpoint list, a non-positive interval or a non-positive
\* timeout, main never enters Run: no loop is spawned and no record created
\* (main is at its start or has exited with status 1).
C15_ConfigDefectFatal ==
    (Len(Urls) = 0 \/ config.IntervalSeconds <= 0 \/ config.TimeoutSeconds <= 0)
        => NothingSpawned

C15_Witness ==
    /\ runPc = "exit1"
    /\ Len(Urls) = 2
    /\ config.IntervalSeconds = 0
    /\ config.TimeoutSeconds = 5

\* C16: no two check loops of one address have a request in flight at once,
\* and a record's write lock is only ever held by the one loop that created
\* the record (the single writer of that address).
C16_SingleWriter ==
    /\ \A i, j \in Loops :
          (i # j /\ Urls[i] = Urls[j]) =>
              ~(pc[i] = "Do" /\ pc[j] = "Do")
    /\ \A r \in Loops : mu[r].w \in {0, r}

\* C17: in no step does a counter reachable through the metrics map under an
\* address decrease, or the address lose its record.
C17_CountersMonotone ==
    [][\A u \in Addrs :
          metrics[u] # Nil =>
              /\ metrics'[u] # Nil
              /\ rec'[metrics'[u]].TotalChecks >= rec[metrics[u]].TotalChecks
              /\ rec'[metrics'[u]].SuccessfulChecks >= rec[metrics[u]].SuccessfulChecks
              /\ rec'[metrics'[u]].TotalResponseTime >= rec[metrics[u]].TotalResponseTime]_vars

\* C18: a reporter tick starts at the first configured URL and goes through
\* config.Urls in order; the step that finishes a URL appends one metrics line
\* for that URL, carrying the TotalChecks read, exactly when that TotalChecks
\* is greater than 0; and no step of the reporter changes a counter.
C18_ReporterTick ==
    [][/\ (rpc = "select" /\ rpc' = "lookup") => (rk' = 1 /\ repOut' = <<>>)
       /\ (rpc = "read" /\ rpc' # "read") =>
             /\ Len(repOut') = Len(repOut) + (IF rec[rm].TotalChecks > 0 THEN 1 ELSE 0)
             /\ SubSeq(repOut', 1, Len(repOut)) = repOut
             /\ rec[rm].TotalChecks > 0 =>
                   /\ repOut'[Len(repOut')].URL = Urls[rk]
                   /\ repOut'[Len(repOut')].TotalChecks = rec[rm].TotalChecks
                   /\ repOut'[Len(repOut')].TotalChecks > 0
             /\ IF rk < Len(Urls)
                THEN rk' = rk + 1 /\ rpc' = "lookup"
                ELSE rpc' = "select"
       /\ rpc' # rpc => rec' = rec]_vars

C18_Witness ==
    /\ rpc = "select"
    /\ Len(Urls) = 2
    /\ Len(repOut) = 1
    /\ repOut[1].URL = Urls[2]
    /\ Urls[1] # Urls[2]

\* C19: a check that ends without a success (transport failure or unhealthy
\* response) leaves its loop at the select with the record's write lock free
\* and the process alive, and a check loop never waits for a lock that its
\* own earlier check of a parseable address left held.
C19_FailuresStayLocal ==
    /\ [](\A i \in Loops :
            (pc[i] = "Lock" /\ m[i] # Nil /\ mu[m[i]].w = i) => Malformed(Urls[i]))
    /\ [][\A i \in Loops :
            (/\ pc[i] = "Do" /\ pc'[i] # "Do"
             /\ rec'[m[i]].SuccessfulChecks = rec[m[i]].SuccessfulChecks)
               => (pc'[i] = "select" /\ mu'[m[i]].w = 0 /\ ~crashed'
                     /\ runPc' \notin {"returned", "exit1"})]_vars

C19_Witness ==
    /\ Len(Urls) = 1
    /\ pc[1] = "select"
    /\ acct[1].failed = 1
    /\ acct[1].unhealthy = 1
    /\ mu[1].w = 0

\* C20: no step that reads or writes the metrics map is taken while another
\* goroutine is inside a write of the map.
C20_NoMapRace ==
    [][/\ \A i \in Loops : (pc[i] = "create" /\ pc'[i] = "creating") => MapWriters = {}
       /\ \A i \in Loops : (pc[i] = "select" /\ pc'[i] = "Lock") => MapWriters = {}
       /\ (rpc = "lookup" /\ rpc' = "RLock") => MapWriters = {}]_vars

====
